---- MODULE Spec2Model ----
(***************************************************************************)
(* A model of src/imghdr.py: what(file, h) and its helper _read_bytes.     *)
(* Bytes are naturals 0..255, byte strings are sequences of them.          *)
(*                                                                         *)
(* Spec      models the calls of what() against the three source shapes    *)
(*           (bytes, path, stream), with and without the override h, and   *)
(*           with a stream operation failing at any step.                  *)
(* SpecMatch draws a header from a large family of byte strings and        *)
(*           applies what() to it, for the claims about the signature      *)
(*           rules alone.                                                  *)
(***************************************************************************)
EXTENDS Naturals, Sequences, FiniteSets

VARIABLES content, seekable, pos, call, ret, io, results

vars == <<content, seekable, pos, call, ret, io, results>>

(***************************************************************************)
(* Bounds of the model and constants of the program.                       *)
(***************************************************************************)
\* how many bytes of "anything" follow a signature in the inputs
MaxTail == 1

\* the largest position a stream starts at, besides its end
MaxStart == 2

\* what() asks _read_bytes for 64 bytes
HeaderLen == 64

\* Python's None, as a return value of what()
None == "None"

(***************************************************************************)
(* Byte strings.                                                           *)
(***************************************************************************)
Min(a, b) == IF a < b THEN a ELSE b

\* s[a:b] of Python, 0 <= a <= b
Slice(s, a, b) ==
    IF a >= Min(b, Len(s)) THEN <<>> ELSE SubSeq(s, a + 1, Min(b, Len(s)))

\* s[:n]
Take(s, n) == Slice(s, 0, n)

\* s.startswith(p)
startswith(s, p) == Len(s) >= Len(p) /\ Slice(s, 0, Len(p)) = p

JPEG    == <<255, 216, 255>>
PNG     == <<137, 80, 78, 71, 13, 10, 26, 10>>
GIF87a  == <<71, 73, 70, 56, 55, 97>>
GIF89a  == <<71, 73, 70, 56, 57, 97>>
BM      == <<66, 77>>
TIFF_LE == <<73, 73, 42, 0>>
TIFF_BE == <<77, 77, 0, 42>>
RIFF    == <<82, 73, 70, 70>>
WEBP    == <<87, 69, 66, 80>>
ICO     == <<0, 0, 1, 0>>

(***************************************************************************)
(* The signature rules of what(), lines 46-66.                             *)
(***************************************************************************)
isJpeg(header) == startswith(header, JPEG)

isPng(header) == startswith(header, PNG)

isGif(header) == startswith(header, GIF87a) \/ startswith(header, GIF89a)

isBmp(header) == startswith(header, BM)

isTiff(header) == startswith(header, TIFF_LE) \/ startswith(header, TIFF_BE)

isWebpNoRiff(header) == Slice(header, 8, 12) = WEBP

isWebp(header) == Slice(header, 0, 4) = RIFF /\ Slice(header, 8, 12) = WEBP

isIco(header) == startswith(header, ICO)

\* the labels what() returns, in the order of its rules
Labels == <<"jpeg", "png", "gif", "bmp", "tiff", "webp", "ico">>

\* the predicate of the rule that returns label
RuleHolds(label, header) ==
    CASE label = "jpeg" -> isJpeg(header)
      [] label = "png"  -> isPng(header)
      [] label = "gif"  -> isGif(header)
      [] label = "bmp"  -> isBmp(header)
      [] label = "tiff" -> isTiff(header)
      [] label = "webp" -> isWebp(header)
      [] label = "ico"  -> isIco(header)

matchGifOnly87(header) ==
    IF header = <<>> THEN None
    ELSE IF isJpeg(header) THEN "jpeg"
    ELSE IF isPng(header) THEN "png"
    ELSE IF startswith(header, GIF87a) THEN "gif"
    ELSE IF isBmp(header) THEN "bmp"
    ELSE IF isTiff(header) THEN "tiff"
    ELSE IF isWebp(header) THEN "webp"
    ELSE IF isIco(header) THEN "ico"
    ELSE None

matchWebpSizeZero(header) ==
    IF header = <<>> THEN None
    ELSE IF isJpeg(header) THEN "jpeg"
    ELSE IF isPng(header) THEN "png"
    ELSE IF isGif(header) THEN "gif"
    ELSE IF isBmp(header) THEN "bmp"
    ELSE IF isTiff(header) THEN "tiff"
    ELSE IF startswith(header, RIFF \o <<0, 0, 0, 0>> \o WEBP) THEN "webp"
    ELSE IF isIco(header) THEN "ico"
    ELSE None

matchBmpOneByte(header) ==
    IF header = <<>> THEN None
    ELSE IF isJpeg(header) THEN "jpeg"
    ELSE IF isPng(header) THEN "png"
    ELSE IF isGif(header) THEN "gif"
    ELSE IF startswith(header, <<66>>) THEN "bmp"
    ELSE IF isTiff(header) THEN "tiff"
    ELSE IF isWebp(header) THEN "webp"
    ELSE IF isIco(header) THEN "ico"
    ELSE None

\* lines 43-68: the classification of a header
matchHeader(header) ==
    IF header = <<>> THEN None
    ELSE IF isJpeg(header) THEN "jpeg"
    ELSE IF isPng(header) THEN "png"
    ELSE IF isGif(header) THEN "gif"
    ELSE IF isBmp(header) THEN "bmp"
    ELSE IF isTiff(header) THEN "tiff"
    ELSE IF isWebp(header) THEN "webp"
    ELSE IF isIco(header) THEN "ico"
    ELSE None

(***************************************************************************)
(* Sources, overrides and faults.                                          *)
(***************************************************************************)
\* the paths a caller may name: a readable file holding content, a path
\* with no file, a file the process may not open
Paths == {"readable", "missing", "denied"}

\* the `file` argument: None, a bytes object, a path, a file-like object
NoFile == [kind |-> "none", name |-> "-"]

BytesFile == [kind |-> "bytes", name |-> "-"]

PathFile(p) == [kind |-> "path", name |-> p]

StreamFile == [kind |-> "stream", name |-> "-"]

\* the `h` argument: None, or a byte string
NoH == [given |-> FALSE, bytes |-> <<>>]

SomeH(b) == [given |-> TRUE, bytes |-> b]

\* the step of the stream branch at which the stream raises, if any
FaultPoints(seekableStream) ==
    IF seekableStream THEN {"none", "tell", "seek", "read", "seekback"}
    ELSE {"none", "read"}

\* what one run of _read_bytes hands back: the bytes, whether an exception
\* left the function, the stream position and the I/O operations performed
Outcome(data, raised, p, ops) ==
    [data |-> data, raised |-> raised, pos |-> p, io |-> ops]

(***************************************************************************)
(* _read_bytes, lines 14-34.  st is the stream/file state, fault names the *)
(* stream operation that raises and whether a failed read had advanced     *)
(* the position before raising.                                            *)
(***************************************************************************)
\* lines 20-22: open() is outside any try, so its exception leaves what()
readPath(name, n, st) ==
    IF name = "readable"
    THEN Outcome(Take(st.content, n), FALSE, st.pos, <<"open", "read", "close">>)
    ELSE Outcome(<<>>, TRUE, st.pos, <<"open">>)

readStreamNoSeekBack(n, st, fault) ==
    IF st.seekable
    THEN IF fault.at = "tell" THEN Outcome(<<>>, FALSE, st.pos, <<"tell">>)
         ELSE IF fault.at = "seek"
              THEN Outcome(<<>>, FALSE, st.pos, <<"tell", "seek">>)
         ELSE IF fault.at = "read"
              THEN Outcome(<<>>, FALSE,
                           IF fault.adv THEN Min(n, Len(st.content)) ELSE 0,
                           <<"tell", "seek", "read">>)
         ELSE Outcome(Take(st.content, n), FALSE, Min(n, Len(st.content)),
                      <<"tell", "seek", "read">>)
    ELSE IF fault.at = "read"
         THEN Outcome(<<>>, FALSE,
                      IF fault.adv THEN Min(st.pos + n, Len(st.content)) ELSE st.pos,
                      <<"read">>)
         ELSE Outcome(Slice(st.content, st.pos, st.pos + n), FALSE,
                      Min(st.pos + n, Len(st.content)), <<"read">>)

readStreamSeekBackUncaught(n, st, fault) ==
    IF st.seekable
    THEN IF fault.at = "tell" THEN Outcome(<<>>, FALSE, st.pos, <<"tell">>)
         ELSE IF fault.at = "seek"
              THEN Outcome(<<>>, FALSE, st.pos, <<"tell", "seek">>)
         ELSE IF fault.at = "read"
              THEN Outcome(<<>>, FALSE,
                           IF fault.adv THEN Min(n, Len(st.content)) ELSE 0,
                           <<"tell", "seek", "read">>)
         ELSE IF fault.at = "seekback"
              THEN Outcome(<<>>, TRUE, Min(n, Len(st.content)),
                           <<"tell", "seek", "read", "seek">>)
         ELSE Outcome(Take(st.content, n), FALSE, st.pos,
                      <<"tell", "seek", "read", "seek">>)
    ELSE IF fault.at = "read"
         THEN Outcome(<<>>, FALSE,
                      IF fault.adv THEN Min(st.pos + n, Len(st.content)) ELSE st.pos,
                      <<"read">>)
         ELSE Outcome(Slice(st.content, st.pos, st.pos + n), FALSE,
                      Min(st.pos + n, Len(st.content)), <<"read">>)

\* lines 24-34: every exception of the stream branch is caught and turned
\* into b""; the seek back (line 31) is skipped when an earlier step raised
readStream(n, st, fault) ==
    IF st.seekable
    THEN IF fault.at = "tell" THEN Outcome(<<>>, FALSE, st.pos, <<"tell">>)
         ELSE IF fault.at = "seek"
              THEN Outcome(<<>>, FALSE, st.pos, <<"tell", "seek">>)
         ELSE IF fault.at = "read"
              THEN Outcome(<<>>, FALSE,
                           IF fault.adv THEN Min(n, Len(st.content)) ELSE 0,
                           <<"tell", "seek", "read">>)
         ELSE IF fault.at = "seekback"
              THEN Outcome(<<>>, FALSE, Min(n, Len(st.content)),
                           <<"tell", "seek", "read", "seek">>)
         ELSE Outcome(Take(st.content, n), FALSE, st.pos,
                      <<"tell", "seek", "read", "seek">>)
    ELSE IF fault.at = "read"
         THEN Outcome(<<>>, FALSE,
                      IF fault.adv THEN Min(st.pos + n, Len(st.content)) ELSE st.pos,
                      <<"read">>)
         ELSE Outcome(Slice(st.content, st.pos, st.pos + n), FALSE,
                      Min(st.pos + n, Len(st.content)), <<"read">>)

readBytesTail(n, st) == Outcome(Slice(st.content, n, Len(st.content)), FALSE, st.pos, <<>>)

\* lines 18-19: bytes(file[:n])
readBytes(n, st) == Outcome(Take(st.content, n), FALSE, st.pos, <<>>)

_read_bytes(file, n, st, fault) ==
    IF file.kind = "none" THEN Outcome(<<>>, FALSE, st.pos, <<>>)
    ELSE IF file.kind = "bytes" THEN readBytes(n, st)
    ELSE IF file.kind = "path" THEN readPath(file.name, n, st)
    ELSE readStream(n, st, fault)

(***************************************************************************)
(* what(file, h), lines 37-68: the value returned (None when an exception  *)
(* left the call), whether one did, the stream position and the I/O done.  *)
(***************************************************************************)
Returned(r, value) ==
    [value |-> value, raised |-> r.raised, pos |-> r.pos, io |-> r.io]

whatTruthyH(file, h, st, fault) ==
    IF h.given /\ h.bytes # <<>>
    THEN Returned(Outcome(h.bytes, FALSE, st.pos, <<>>), matchHeader(h.bytes))
    ELSE LET r == _read_bytes(file, HeaderLen, st, fault)
         IN  Returned(r, IF r.raised THEN None ELSE matchHeader(r.data))

what(file, h, st, fault) ==
    IF h.given
    THEN Returned(Outcome(h.bytes, FALSE, st.pos, <<>>), matchHeader(h.bytes))
    ELSE LET r == _read_bytes(file, HeaderLen, st, fault)
         IN  Returned(r, IF r.raised THEN None ELSE matchHeader(r.data))

(***************************************************************************)
(* The byte strings the model draws its inputs from.                       *)
(***************************************************************************)
Signatures == {JPEG, PNG, GIF87a, GIF89a, BM, TIFF_LE, TIFF_BE, ICO}

\* values of a RIFF chunk-size byte
ChunkBytes == {0, 82, 255}

ChunkSizes == {<<a, b, c, d>> : a \in ChunkBytes, b \in ChunkBytes,
                               c \in ChunkBytes, d \in ChunkBytes}

WebpVectors == {RIFF \o c \o WEBP : c \in ChunkSizes}

\* bytes that follow a signature
TailBytes == {0, 66, 255}

RECURSIVE Strings(_, _)
\* every string over the bytes B of length at most k
Strings(B, k) ==
    IF k = 0 THEN {<<>>}
    ELSE LET shorter == Strings(B, k - 1)
         IN  shorter \cup {Append(t, b) : t \in shorter, b \in B}

Tails == Strings(TailBytes, MaxTail)

Prefixes(v) == {Take(v, k) : k \in 0..Len(v)}

\* v with one byte changed to a neighbouring value
Mutations(v) ==
    {[v EXCEPT ![i] = (v[i] + d) % 256] : i \in DOMAIN v, d \in {1, 255}}

\* the first bytes of the signatures, and a byte of none
FirstBytes == {s[1] : s \in Signatures} \cup {RIFF[1], 1}

\* the first eight bytes of s padded with zeros, then WEBP at offset 8
Crossed(s) == Take(s \o <<0, 0, 0, 0, 0, 0>>, 8) \o WEBP

RECURSIVE Zeros(_)
Zeros(k) == IF k = 0 THEN <<>> ELSE Append(Zeros(k - 1), 0)

\* v followed by zeros, longer than the header what() reads
Long(v) == v \o Zeros(HeaderLen + MaxTail - Len(v))

\* the signature test vectors: a signature followed by anything
TestVectors ==
    {v \o t : v \in Signatures \cup WebpVectors, t \in Tails}

\* the headers of SpecMatch
Headers ==
    TestVectors
    \cup UNION {Prefixes(v) : v \in Signatures \cup WebpVectors}
    \cup UNION {Mutations(v) : v \in Signatures \cup WebpVectors}
    \cup {<<b>> : b \in 0..255}
    \cup {<<a, b>> : a \in FirstBytes, b \in FirstBytes}
    \cup {Crossed(s) : s \in Signatures}
    \cup {Long(v) : v \in Signatures}

\* the contents of the file and of the stream of Spec
IOVectors ==
    Signatures \cup {RIFF \o <<0, 0, 0, 0>> \o WEBP, RIFF \o <<255, 82, 0, 255>> \o WEBP}

Contents ==
    {v \o t : v \in IOVectors, t \in Strings({66}, MaxTail)}
    \cup {<<>>, <<66>>, <<1, 2, 3, 4>>, Take(PNG, 4), Long(JPEG)}

\* the override prefixes a caller passes besides the content itself
Overrides == {<<>>, GIF89a}

(***************************************************************************)
(* The state: the bytes of the file, of the bytes object and of the        *)
(* stream; the stream's capability and position; the last call of what(),  *)
(* what it returned and the I/O it did; the values what(stream) returned   *)
(* so far in calls where nothing failed and no override was given.         *)
(***************************************************************************)
Idle == [file |-> NoFile, h |-> NoH, fault |-> "none", posBefore |-> 0, done |-> FALSE]

\* where the caller left the stream: near the start, or at the end
StartPositions(c) == {p \in 0..Len(c) : p <= MaxStart \/ p = Len(c)}

Init ==
    /\ content \in Contents
    /\ seekable \in BOOLEAN
    /\ pos \in StartPositions(content)
    /\ call = Idle
    /\ ret = [value |-> None, raised |-> FALSE]
    /\ io = <<>>
    /\ results = {}

State == [content |-> content, pos |-> pos, seekable |-> seekable]

\* one call what(file, h), the stream failing at fault.at
Call(file, h, fault) ==
    LET r == what(file, h, State, fault)
    IN  /\ call' = [file |-> file, h |-> h, fault |-> fault.at,
                    posBefore |-> pos, done |-> TRUE]
        /\ ret' = [value |-> r.value, raised |-> r.raised]
        /\ pos' = r.pos
        /\ io' = r.io
        /\ results' = IF file.kind = "stream" /\ ~h.given /\ fault.at = "none"
                      THEN results \cup {r.value} ELSE results
        /\ UNCHANGED <<content, seekable>>

NoFault == [at |-> "none", adv |-> FALSE]

HArgs == {NoH, SomeH(content)} \cup {SomeH(b) : b \in Overrides}

WhatNone == \E h \in HArgs : Call(NoFile, h, NoFault)

WhatBytes == \E h \in HArgs : Call(BytesFile, h, NoFault)

WhatPath == \E p \in Paths, h \in HArgs : Call(PathFile(p), h, NoFault)

WhatStream ==
    \E h \in HArgs, at \in FaultPoints(seekable), adv \in BOOLEAN :
        /\ (adv => at = "read")
        /\ (h.given => at = "none")
        /\ Call(StreamFile, h, [at |-> at, adv |-> adv])

Next == WhatNone \/ WhatBytes \/ WhatPath \/ WhatStream

Spec == Init /\ [][Next]_vars

(***************************************************************************)
(* SpecMatch: what() applied to a header, given as a bytes object or as    *)
(* the override.                                                           *)
(***************************************************************************)
InitMatch ==
    /\ content \in Headers
    /\ seekable = FALSE
    /\ pos = 0
    /\ call = Idle
    /\ ret = [value |-> None, raised |-> FALSE]
    /\ io = <<>>
    /\ results = {}

ClassifyBytes == Call(BytesFile, NoH, NoFault)

ClassifyOverride == Call(NoFile, SomeH(content), NoFault)

NextMatch == ClassifyBytes \/ ClassifyOverride

SpecMatch == InitMatch /\ [][NextMatch]_vars

(***************************************************************************)
(* The signature table as the specification states it: each rule a label   *)
(* and alternatives, each alternative a set of (offset, bytes) parts that  *)
(* must all be present.                                                    *)
(***************************************************************************)
Part(off, bytes) == [off |-> off, bytes |-> bytes]

SigTable ==
    << [label |-> "jpeg", alts |-> {{Part(0, JPEG)}}],
       [label |-> "png",  alts |-> {{Part(0, PNG)}}],
       [label |-> "gif",  alts |-> {{Part(0, GIF87a)}, {Part(0, GIF89a)}}],
       [label |-> "bmp",  alts |-> {{Part(0, BM)}}],
       [label |-> "tiff", alts |-> {{Part(0, TIFF_LE)}, {Part(0, TIFF_BE)}}],
       [label |-> "webp", alts |-> {{Part(0, RIFF), Part(8, WEBP)}}],
       [label |-> "ico",  alts |-> {{Part(0, ICO)}}] >>

PartPresent(part, b) ==
    /\ Len(b) >= part.off + Len(part.bytes)
    /\ \A k \in DOMAIN part.bytes : b[part.off + k] = part.bytes[k]

Satisfies(rule, b) == \E alt \in rule.alts : \A part \in alt : PartPresent(part, b)

\* the label of the first rule of the table that b satisfies, None if none
FirstMatch(b) ==
    LET hits == {i \in DOMAIN SigTable : Satisfies(SigTable[i], b)}
    IN  IF b = <<>> \/ hits = {} THEN None
        ELSE SigTable[CHOOSE i \in hits : \A j \in hits : i <= j].label

\* the result of trying the code's rules in the given order of labels
MatchIn(order, header) ==
    LET hits == {i \in DOMAIN order : RuleHolds(order[i], header)}
    IN  IF header = <<>> \/ hits = {} THEN None
        ELSE order[CHOOSE i \in hits : \A j \in hits : i <= j]

Reversed(s) == [i \in DOMAIN s |-> s[Len(s) + 1 - i]]

Rotated(s, k) == [i \in DOMAIN s |-> s[((i - 1 + k) % Len(s)) + 1]]

\* the last call was what(stream) with no override
StreamCall == call.done /\ call.file = StreamFile /\ ~call.h.given

IsTestVector(b) == \E v \in IOVectors : startswith(b, v)

(***************************************************************************)
(* The claims.                                                             *)
(***************************************************************************)

\* C1: what(path) for a path that cannot be opened (no such file, permission
\* denied) returns None and raises nothing.  The code lets open()'s
\* exception leave what(): this is the claim as stated, and it is violated.
C1_UnreadablePathReturnsNone ==
    (call.done /\ call.file.kind = "path" /\ call.file.name # "readable"
        /\ ~call.h.given)
    => (~ret.raised /\ ret.value = None)

\* C2: after what(stream) on a seekable stream with no failure, the position
\* is the one before the call, and every such call so far returned the same
\* value, the classification of the stream's bytes from offset 0.
C2_SeekableStreamRestored ==
    /\ (StreamCall /\ seekable /\ call.fault = "none")
       => /\ pos = call.posBefore
          /\ ~ret.raised
          /\ ret.value = matchHeader(Take(content, HeaderLen))
          /\ results = {ret.value}
    /\ seekable => Cardinality(results) <= 1

C2_Witness ==
    /\ StreamCall /\ seekable /\ call.fault = "none"
    /\ call.posBefore = Len(content) /\ Len(content) > HeaderLen
    /\ pos = call.posBefore
    /\ ret.value = "jpeg"
    /\ results = {"jpeg"}

\* C3: when the read raises after the position was recorded and the stream
\* was seeked to the start, the position is still restored.  The code skips
\* the seek back then: this is the claim as stated, and it is violated.
C3_RestoredWhenReadRaises ==
    (StreamCall /\ seekable /\ call.fault = "read") => pos = call.posBefore

\* C4: with an override h, what() does no I/O on the source, leaves a
\* stream's position alone and returns the classification of h alone,
\* whatever the source is.
C4_OverrideNoIO ==
    (call.done /\ call.h.given)
    => /\ io = <<>>
       /\ pos = call.posBefore
       /\ ~ret.raised
       /\ ret.value = FirstMatch(call.h.bytes)

C4_Witness ==
    /\ call.done /\ call.file = StreamFile /\ call.h = SomeH(GIF89a)
    /\ startswith(content, JPEG) /\ call.posBefore > 0
    /\ io = <<>> /\ pos = call.posBefore
    /\ ret.value = "gif"

\* C5: what() returns the label of the first rule of the signature table
\* that the prefix satisfies, None when none does or the prefix is empty;
\* the result is one of the seven labels or None.
C5_FirstMatchingRule ==
    call.done
    => /\ ~ret.raised
       /\ ret.value = FirstMatch(content)
       /\ ret.value \in {Labels[i] : i \in DOMAIN Labels} \cup {None}

C5_Witness ==
    /\ call.done /\ ret.value = "gif"
    /\ startswith(content, GIF89a) /\ Len(content) > Len(GIF89a)

\* C6: RIFF, four bytes of any value, WEBP, then anything: what() returns
\* "webp".
C6_WebpAnyChunkSize ==
    (call.done /\ Len(content) >= 12
        /\ Take(content, 4) = RIFF /\ Slice(content, 8, 12) = WEBP)
    => ret.value = "webp"

C6_Witness ==
    /\ call.done /\ ret.value = "webp"
    /\ startswith(content, RIFF \o <<255, 82, 0, 255>> \o WEBP)

\* C7: what(b) is None for every b shorter than two bytes.
C7_ShortIsNone ==
    (call.done /\ Len(content) < 2) => (~ret.raised /\ ret.value = None)

C7_Witness ==
    /\ call.done /\ content = <<66>> /\ call.file = BytesFile
    /\ ret.value = None

\* C8: for a test vector X, what(None, h = X), what(path of a readable file
\* that starts with X) and what(X) agree.
C8_OverrideFileBytesAgree ==
    (/\ call.done /\ IsTestVector(content)
     /\ \/ call.file = PathFile("readable") /\ ~call.h.given
        \/ call.file = BytesFile /\ ~call.h.given
        \/ call.file = NoFile /\ call.h = SomeH(content))
    => /\ ~ret.raised
       /\ ret.value = what(NoFile, SomeH(content), State, NoFault).value
       /\ ret.value = what(PathFile("readable"), NoH, State, NoFault).value
       /\ ret.value = what(BytesFile, NoH, State, NoFault).value

C8_Witness ==
    /\ call.done /\ call.file = PathFile("readable") /\ ~call.h.given
    /\ content = TIFF_BE \o <<66>>
    /\ ret.value = "tiff"
    /\ what(NoFile, SomeH(content), State, NoFault).value = "tiff"

\* C9: no prefix satisfies the predicates of two rules, so what() returns
\* the same under other orders of the rules (the reverse and every rotation).
C9_RulesExclusive ==
    call.done
    => /\ Cardinality({i \in DOMAIN Labels : RuleHolds(Labels[i], content)}) <= 1
       /\ ret.value = MatchIn(Reversed(Labels), content)
       /\ \A k \in DOMAIN Labels : ret.value = MatchIn(Rotated(Labels, k), content)

C9_Witness ==
    /\ call.done /\ content = Crossed(BM)
    /\ ret.value = "bmp"
    /\ {i \in DOMAIN Labels : RuleHolds(Labels[i], content)} = {4}

\* C10: a stream operation raising at any step of the read (tell, seek to
\* the start, read, seek back) makes what(stream) return None with no
\* exception, also when the read itself had succeeded.
C10_StreamFailureIsNone ==
    (StreamCall /\ call.fault # "none") => (~ret.raised /\ ret.value = None)

C10_Witness ==
    /\ StreamCall /\ seekable /\ call.fault = "seekback"
    /\ startswith(content, PNG)
    /\ ~ret.raised /\ ret.value = None

====
